---- MODULE Spec2Model ----
(***************************************************************************)
(* A model of the two keyed containers of the repository and of its trail: *)
(*   - InfiniteHashTable (src/infinite_hash_table.py), the trie of         *)
(*     27-slot hash tables,                                                *)
(*   - DoubleKeyTable (src/double_key_table.py), the two-level table, and  *)
(*   - Trail (src/trail.py), the series/split structure of mountains,      *)
(*   - MountainOrganiser (src/mountain_organiser.py), the sorted array.    *)
(* Python strings are sequences of character codes (ord values); a Python  *)
(* call that raises is a result record whose err field names the           *)
(* exception, and a call that returns has err = "ok".                      *)
(***************************************************************************)
EXTENDS Integers, Sequences, FiniteSets, TLC

VARIABLES root, tref, tlast, terr, twas, dkt, dref, dlast, derr, trail, tout,
          org, oadded, olast

\* The trie, the reference map, the last call and its outcome; twas tells
\* whether the key of the last call was in the trie when the call was made.
tvars == <<root, tref, tlast, terr, twas>>

dvars == <<dkt, dref, dlast, derr>>

\* The trail and what the last call on it returned.
trvars == <<trail, tout>>

\* The organiser, every mountain handed to it so far in the order given,
\* and the last call: the list given and the organiser's length before it.
ovars == <<org, oadded, olast>>

vars == <<root, tref, tlast, terr, twas, dkt, dref, dlast, derr, trail, tout,
          org, oadded, olast>>

(***************************************************************************)
(* Inputs.                                                                 *)
(***************************************************************************)

\* Keys of the trie: "a", "G", "aa", "ah", "aaa", "aah".
\* ord("a") = 97 and ord("G") = 71 are both 19 modulo 26; ord("h") = 104
\* is 0 modulo 26.
Keys ==
  { <<97>>, <<71>>, <<97, 97>>, <<97, 104>>, <<97, 97, 97>>, <<97, 97, 104>> }

Values == {1, 2}

\* At most this many keys are handed to the containers at one time.
MaxStored == 4

\* Depth at which a chain of nested __setitem__ calls is cut off with
\* RecursionError.  CPython cuts it at its recursion limit; beyond the
\* length of the longest key every key hashes to the sentinel slot at every
\* level, so any limit above that length gives the same outcome.
RecursionLimit == 4

(***************************************************************************)
(* Results of calls.                                                       *)
(***************************************************************************)
Return(v) == [err |-> "ok", value |-> v]

Raise(e) == [err |-> e]

(***************************************************************************)
(* The reference map: an ordinary dictionary that the same operations are  *)
(* applied to.                                                             *)
(***************************************************************************)
EmptyMap == [x \in {} |-> 0]

Put(f, k, v) == [x \in (DOMAIN f) \cup {k} |-> IF x = k THEN v ELSE f[x]]

Remove(f, k) == [x \in (DOMAIN f) \ {k} |-> f[x]]

(***************************************************************************)
(* InfiniteHashTable.                                                      *)
(***************************************************************************)
TABLE_SIZE == 27

\* An entry of a node's array: None, a (key, value) tuple, or a table.
None == [tag |-> "None"]

Tuple(k, v) == [tag |-> "tuple", key |-> k, value |-> v]

\* InfiniteHashTable(level): ArrayR(TABLE_SIZE) of None, count 0.  The array
\* of TABLE_SIZE cells is kept as the function from the indices of its cells
\* that are not None to their contents: Cell reads a cell, SetCell writes one.
NewTable(level) ==
  [tag |-> "table", level |-> level, count |-> 0, array |-> EmptyMap]

Cell(self, index) ==
  IF index \in DOMAIN self.array THEN self.array[index] ELSE None

SetCell(self, index, entry) ==
  [self EXCEPT !.array = IF entry = None THEN Remove(@, index)
                                         ELSE Put(@, index, entry)]

IHT_hash(self, key) ==
  IF self.level < Len(key)
    THEN key[self.level + 1] % (TABLE_SIZE - 1)
    ELSE TABLE_SIZE - 1

RECURSIVE IHT_getitem(_, _)
IHT_getitem(self, key) ==
  LET index == IHT_hash(self, key)
      entry == Cell(self, index)
  IN  IF entry.tag = "None" THEN Raise("KeyError")
      ELSE IF entry.tag = "tuple"
        THEN IF entry.key = key THEN Return(entry.value)
                                ELSE Raise("KeyError")
        ELSE IHT_getitem(entry, key)

IHT_contains(self, key) == IHT_getitem(self, key).err # "KeyError"

\* __setitem__ with "self.count += 1" done for every tuple written into a
\* slot of the table, the overwrite of a stored key included.
RECURSIVE IHT_setitem_CountOnOverwrite(_, _, _)
IHT_setitem_CountOnOverwrite(self, key, value) ==
  IF self.level > RecursionLimit
    THEN [err |-> "RecursionError", self |-> self]
    ELSE
      LET index == IHT_hash(self, key)
          entry == Cell(self, index)
      IN  IF entry.tag = "None"
            THEN [err |-> "ok",
                  self |-> [SetCell(self, index, Tuple(key, value))
                              EXCEPT !.count = @ + 1]]
          ELSE IF entry.tag = "tuple"
            THEN IF entry.key = key
                   THEN [err |-> "ok",
                         self |-> [SetCell(self, index, Tuple(key, value))
                                     EXCEPT !.count = @ + 1]]
                   ELSE
                     LET new_table == NewTable(self.level + 1)
                         r1 == IHT_setitem_CountOnOverwrite(
                                 new_table, entry.key, entry.value)
                         r2 == IF r1.err = "ok"
                                 THEN IHT_setitem_CountOnOverwrite(
                                        r1.self, key, value)
                                 ELSE r1
                     IN  IF r2.err = "ok"
                           THEN [err |-> "ok",
                                 self |-> SetCell(self, index, r2.self)]
                           ELSE [err |-> r2.err, self |-> self]
          ELSE
            LET r == IHT_setitem_CountOnOverwrite(entry, key, value)
            IN  [err |-> r.err, self |-> SetCell(self, index, r.self)]

\* The result is [err, self]: self is the table after the call, whether the
\* call returned or raised (the tables are mutated in place).
RECURSIVE IHT_setitem(_, _, _)
IHT_setitem(self, key, value) ==
  IF self.level > RecursionLimit
    THEN [err |-> "RecursionError", self |-> self]
    ELSE
      LET index == IHT_hash(self, key)
          entry == Cell(self, index)
      IN  IF entry.tag = "None"
            THEN [err |-> "ok",
                  self |-> [SetCell(self, index, Tuple(key, value))
                              EXCEPT !.count = @ + 1]]
          ELSE IF entry.tag = "tuple"
            THEN IF entry.key = key
                   THEN [err |-> "ok",
                         self |-> SetCell(self, index, Tuple(key, value))]
                   ELSE
                     LET new_table == NewTable(self.level + 1)
                         r1 == IHT_setitem(new_table, entry.key, entry.value)
                         r2 == IF r1.err = "ok"
                                 THEN IHT_setitem(r1.self, key, value)
                                 ELSE r1
                     IN  IF r2.err = "ok"
                           THEN [err |-> "ok",
                                 self |-> SetCell(self, index, r2.self)]
                           ELSE [err |-> r2.err, self |-> self]
          ELSE
            LET r == IHT_setitem(entry, key, value)
            IN  [err |-> r.err, self |-> SetCell(self, index, r.self)]

\* "k, v = next(iter(entry.array))": the first cell of the child's array,
\* unpacked as a pair.  A cell that is None or a table cannot be unpacked.
FirstCell(table) == Cell(table, 0)

RECURSIVE IHT_delitem(_, _)
IHT_delitem(self, key) ==
  LET index == IHT_hash(self, key)
      entry == Cell(self, index)
  IN  IF entry.tag = "None" THEN [err |-> "KeyError", self |-> self]
      ELSE IF entry.tag = "tuple"
        THEN IF entry.key = key
               THEN [err |-> "ok",
                     self |-> [SetCell(self, index, None)
                                 EXCEPT !.count = @ - 1]]
               ELSE [err |-> "KeyError", self |-> self]
        ELSE
          LET r == IHT_delitem(entry, key)
              kept == SetCell(self, index, r.self)
          IN  IF r.err # "ok" THEN [err |-> r.err, self |-> kept]
              ELSE IF r.self.count = 1
                THEN IF FirstCell(r.self).tag = "tuple"
                       THEN [err |-> "ok",
                             self |-> SetCell(self, index, FirstCell(r.self))]
                       ELSE [err |-> "TypeError", self |-> kept]
                ELSE [err |-> "ok", self |-> kept]

IHT_len(self) == self.count

\* get_location and its while loop
\*   while not isinstance(entry, tuple) or entry[0] != key:
\*       sub_location = entry.get_location(key)
\*       location.extend(sub_location)
\*       entry = entry.array[sub_location[-1]]
\* An entry that is None or another key's tuple has no get_location.
RECURSIVE IHT_get_location(_, _), IHT_get_location_loop(_, _, _)
IHT_get_location(self, key) ==
  LET index == IHT_hash(self, key)
      entry == Cell(self, index)
  IN  IF entry.tag = "None" THEN Raise("KeyError")
      ELSE IF entry.tag = "tuple"
        THEN IF entry.key = key THEN Return(<<index>>)
                                ELSE Raise("KeyError")
        ELSE IHT_get_location_loop(entry, key, <<index>>)

IHT_get_location_loop(entry, key, location) ==
  IF entry.tag = "tuple" /\ entry.key = key THEN Return(location)
  ELSE IF entry.tag # "table" THEN Raise("AttributeError")
  ELSE LET sub_location == IHT_get_location(entry, key)
       IN  IF sub_location.err # "ok" THEN sub_location
           ELSE IHT_get_location_loop(
                  Cell(entry, sub_location.value[Len(sub_location.value)]),
                  key, location \o sub_location.value)

(***************************************************************************)
(* LinearProbeTable (data_structures.hash_table): the single-level probing *)
(* table that DoubleKeyTable keeps in every outer slot.  A table is        *)
(* [TABLE_SIZES, size_index, count, array], array being a function on      *)
(* 0 .. table_size-1 whose cells are None or a (key, value) tuple.         *)
(***************************************************************************)
Range(n) == 0 .. (n - 1)

LPT_new(sizes) ==
  [TABLE_SIZES |-> sizes, size_index |-> 0, count |-> 0,
   array |-> [i \in Range(sizes[1]) |-> None]]

\* The table_size property: len(self.array).
LPT_table_size(self) == Cardinality(DOMAIN self.array)

LPT_len(self) == self.count

LPT_is_empty(self) == self.count = 0

\* An operand of "%" is an int, or (DoubleKeyTable.table_size, which is not
\* a property) a bound method.
IntVal(n) == [tag |-> "int", v |-> n]

BoundMethod == [tag |-> "method"]

\* The loop shared by hash1, hash2 and LinearProbeTable.hash:
\*   for char in key:
\*       value = (ord(char) + a * value) % table_size
\*       a = a * HASH_BASE % (table_size - 1)
\* "int % method" and "method - 1" raise TypeError.
HASH_BASE == 31

RECURSIVE HashLoop(_, _, _, _)
HashLoop(key, value, a, table_size) ==
  IF key = << >> THEN Return(value)
  ELSE IF table_size.tag # "int" THEN Raise("TypeError")
  ELSE HashLoop(Tail(key),
                (Head(key) + a * value) % table_size.v,
                (a * HASH_BASE) % (table_size.v - 1),
                table_size)

LPT_hash(self, key) == HashLoop(key, 0, 31415, IntVal(LPT_table_size(self))).value

\* Linear probing from position, at most left more cells.
RECURSIVE LPT_probe(_, _, _, _, _)
LPT_probe(self, key, is_insert, position, left) ==
  IF left = 0
    THEN IF is_insert THEN Raise("FullError") ELSE Raise("KeyError")
  ELSE IF self.array[position].tag = "None"
    THEN IF is_insert THEN Return(position) ELSE Raise("KeyError")
  ELSE IF self.array[position].key = key THEN Return(position)
  ELSE LPT_probe(self, key, is_insert,
                 (position + 1) % LPT_table_size(self), left - 1)

LPT_linear_probe(self, key, is_insert) ==
  LPT_probe(self, key, is_insert, LPT_hash(self, key), LPT_table_size(self))

LPT_getitem(self, key) ==
  LET p == LPT_linear_probe(self, key, FALSE)
  IN  IF p.err = "ok" THEN Return(self.array[p.value].value) ELSE p

LPT_contains(self, key) == LPT_getitem(self, key).err = "ok"

\* The cells in slot order.
RECURSIVE LPT_cells(_, _)
LPT_cells(self, i) ==
  IF i = LPT_table_size(self) THEN << >>
  ELSE IF self.array[i].tag = "None" THEN LPT_cells(self, i + 1)
  ELSE <<self.array[i]>> \o LPT_cells(self, i + 1)

LPT_items(self) == LPT_cells(self, 0)

LPT_keys(self) ==
  LET c == LPT_items(self) IN [i \in 1 .. Len(c) |-> c[i].key]

LPT_values(self) ==
  LET c == LPT_items(self) IN [i \in 1 .. Len(c) |-> c[i].value]

\* Insert without the growth check (used by set and by the re-insertion
\* passes of rehash and delete).
LPT_store(self, key, data) ==
  LET p == LPT_linear_probe(self, key, TRUE)
  IN  IF p.err # "ok" THEN [err |-> p.err, self |-> self]
      ELSE [err |-> "ok",
            self |-> [self EXCEPT
                        !.array[p.value] = Tuple(key, data),
                        !.count = IF self.array[p.value].tag = "None"
                                    THEN @ + 1 ELSE @]]

RECURSIVE LPT_reinsert(_, _)
LPT_reinsert(self, cells) ==
  IF cells = << >> THEN self
  ELSE LPT_reinsert(LPT_store(self, Head(cells).key, Head(cells).value).self,
                    Tail(cells))

\* Growth: the next capacity of the table's own sequence, every pair
\* re-inserted; no growth once the sequence is used up.
LPT_rehash(self) ==
  IF self.size_index + 1 >= Len(self.TABLE_SIZES)
    THEN [self EXCEPT !.size_index = @ + 1]
    ELSE LPT_reinsert(
           [self EXCEPT
              !.size_index = @ + 1,
              !.count = 0,
              !.array = [i \in Range(self.TABLE_SIZES[self.size_index + 2])
                           |-> None]],
           LPT_items(self))

LPT_setitem(self, key, data) ==
  LET r == LPT_store(self, key, data)
  IN  IF r.err # "ok" THEN r
      ELSE IF 2 * r.self.count > LPT_table_size(r.self)
        THEN [err |-> "ok", self |-> LPT_rehash(r.self)]
        ELSE r

\* After a delete the cluster that follows the freed cell is re-inserted.
RECURSIVE LPT_shift(_, _)
LPT_shift(self, position) ==
  IF self.array[position].tag = "None" THEN self
  ELSE LET item == self.array[position]
           cleared == [self EXCEPT !.array[position] = None,
                                   !.count = @ - 1]
       IN  LPT_shift(LPT_store(cleared, item.key, item.value).self,
                     (position + 1) % LPT_table_size(self))

LPT_delitem(self, key) ==
  LET p == LPT_linear_probe(self, key, FALSE)
  IN  IF p.err # "ok" THEN [err |-> p.err, self |-> self]
      ELSE [err |-> "ok",
            self |-> LPT_shift([self EXCEPT !.array[p.value] = None,
                                            !.count = @ - 1],
                               (p.value + 1) % LPT_table_size(self))]

(***************************************************************************)
(* DoubleKeyTable.  A top-level key is a Python object: a string           *)
(* [str |-> chars] or an int [int |-> n] (keys(None), iter_keys(None) and   *)
(* _rehash hand out ints); a bottom-level key is a string.                 *)
(***************************************************************************)
PyStr(s) == [str |-> s]

PyInt(n) == [int |-> n]

\* str(n) for n >= 0: the decimal digits.
RECURSIVE Digits(_)
Digits(n) == IF n < 10 THEN <<48 + n>> ELSE Digits(n \div 10) \o <<48 + (n % 10)>>

Str(key) == IF "int" \in DOMAIN key THEN Digits(key.int) ELSE key.str

\* An optional constructor argument.
NotGiven == [given |-> FALSE]

Given(list) == [given |-> TRUE, list |-> list]

\* The class attribute TABLE_SIZES (its first capacities).
DKT_TABLE_SIZES == <<5, 13, 29, 53>>

DKT_init(sizes, internal_sizes) ==
  LET table_sizes == IF sizes.given THEN sizes.list ELSE DKT_TABLE_SIZES
      internal_table_sizes ==
        IF internal_sizes.given THEN internal_sizes.list ELSE table_sizes
  IN  [TABLE_SIZES |-> table_sizes,
       size_index |-> 0,
       array |-> [i \in Range(table_sizes[1]) |-> LPT_new(internal_table_sizes)],
       count |-> 0]

\* table_size is a plain method: called, it returns the outer capacity.
DKT_table_size(self) == self.TABLE_SIZES[self.size_index + 1]

\* hash1 reads the attribute self.table_size without calling it.
DKT_hash1(self, key) == HashLoop(Str(key), 0, 31415, BoundMethod)

DKT_hash2(self, key, sub_table) ==
  HashLoop(key, 0, 31415, IntVal(LPT_table_size(sub_table)))

DKT_getitem(self, key1, key2) ==
  LET position == DKT_hash1(self, key1)
  IN  IF position.err # "ok" THEN position
      ELSE LPT_getitem(self.array[position.value], key2)

DKT_contains(self, key1, key2) ==
  LET position == DKT_hash1(self, key1)
  IN  IF position.err # "ok" THEN position
      ELSE Return(LPT_contains(self.array[position.value], key2))

DKT_setitem(self, key1, key2, data) ==
  LET position == DKT_hash1(self, key1)
  IN  IF position.err # "ok" THEN [err |-> position.err, self |-> self]
      ELSE LET r == LPT_setitem(self.array[position.value], key2, data)
           IN  [err |-> r.err,
                self |-> [self EXCEPT !.array[position.value] = r.self]]

\* __delitem__ without the test "if len(internal_table) == 0": the slot
\* gets a new table after every delete.
DKT_delitem_AlwaysNewTable(self, key1, key2) ==
  LET position == DKT_hash1(self, key1)
  IN  IF position.err # "ok" THEN [err |-> position.err, self |-> self]
      ELSE LET r == LPT_delitem(self.array[position.value], key2)
           IN  IF r.err # "ok" THEN [err |-> r.err, self |-> self]
               ELSE [err |-> "ok",
                     self |-> [self EXCEPT !.array[position.value] =
                                             LPT_new(self.TABLE_SIZES)]]

DKT_delitem(self, key1, key2) ==
  LET position == DKT_hash1(self, key1)
  IN  IF position.err # "ok" THEN [err |-> position.err, self |-> self]
      ELSE LET r == LPT_delitem(self.array[position.value], key2)
           IN  IF r.err # "ok" THEN [err |-> r.err, self |-> self]
               ELSE IF LPT_len(r.self) = 0
                 THEN [err |-> "ok",
                       self |-> [self EXCEPT !.array[position.value] =
                                               LPT_new(self.TABLE_SIZES)]]
                 ELSE [err |-> "ok",
                       self |-> [self EXCEPT !.array[position.value] = r.self]]

\* The probing loop of _linear_probe, "for _ in range(table_size)", with
\* left cells still to look at.
RECURSIVE DKT_probe(_, _, _, _, _, _)
DKT_probe(internal_table, key1, key2, is_insert, position, left) ==
  IF left = 0
    THEN IF is_insert THEN Raise("FullError") ELSE Raise("KeyError")
  ELSE IF internal_table.array[position[2]].tag = "None"
    THEN IF is_insert THEN Return(position) ELSE Raise("KeyError")
  ELSE IF internal_table.array[position[2]].key = key2 THEN Return(position)
  ELSE DKT_probe(internal_table, key1, key2, is_insert,
                 <<position[1],
                   (position[2] + 1) % LPT_table_size(internal_table)>>,
                 left - 1)

\* _linear_probe: the result is [err, value, self], value being
\* (position1, position2) when the call returns.  An insert into a slot
\* whose table is empty first puts a new table into the slot.
DKT_linear_probe(self, key1, key2, is_insert) ==
  LET position1 == DKT_hash1(self, key1)
  IN  IF position1.err # "ok" THEN [err |-> position1.err, self |-> self]
      ELSE
        LET replaced == is_insert /\ LPT_is_empty(self.array[position1.value])
            internal_table == IF replaced THEN LPT_new(self.TABLE_SIZES)
                                          ELSE self.array[position1.value]
            after == [self EXCEPT !.array[position1.value] = internal_table]
            position2 == DKT_hash2(self, key2, internal_table)
            r == DKT_probe(internal_table, key1, key2, is_insert,
                           <<position1.value, position2.value>>,
                           LPT_table_size(internal_table))
        IN  IF r.err = "ok"
              THEN [err |-> "ok", value |-> r.value, self |-> after]
              ELSE [err |-> r.err, self |-> after]

\* The outer slots whose table is not empty, in slot order, from slot i on.
RECURSIVE DKT_slots(_, _)
DKT_slots(self, i) ==
  IF i \notin DOMAIN self.array THEN << >>
  ELSE IF LPT_is_empty(self.array[i]) THEN DKT_slots(self, i + 1)
  ELSE <<i>> \o DKT_slots(self, i + 1)

\* keys(None): "[key1 for key1, internal_table in enumerate(self.array) if
\* not internal_table.is_empty()]", the slot numbers.
DKT_keys_all(self) ==
  LET s == DKT_slots(self, 0) IN Return([i \in 1 .. Len(s) |-> PyInt(s[i])])

\* keys(key) for a key that is not None.
DKT_keys(self, key) ==
  LET position == DKT_hash1(self, key)
  IN  IF position.err # "ok" THEN position
      ELSE Return(LPT_keys(self.array[position.value]))

\* iter_keys(None) yields what keys(None) lists.
DKT_iter_keys_all(self) == DKT_keys_all(self)

\* iter_keys(None).__next__()
DKT_iter_keys_next(self) ==
  LET s == DKT_iter_keys_all(self).value
  IN  IF s = << >> THEN Raise("StopIteration") ELSE Return(s[1])

RECURSIVE DKT_values_from(_, _)
DKT_values_from(self, i) ==
  IF i \notin DOMAIN self.array THEN << >>
  ELSE LPT_values(self.array[i]) \o DKT_values_from(self, i + 1)

DKT_values_all(self) == Return(DKT_values_from(self, 0))

DKT_values(self, key) ==
  LET position == DKT_hash1(self, key)
  IN  IF position.err # "ok" THEN position
      ELSE Return(LPT_values(self.array[position.value]))

RECURSIVE DKT_len_from(_, _)
DKT_len_from(self, i) ==
  IF i \notin DOMAIN self.array THEN 0
  ELSE LPT_len(self.array[i]) + DKT_len_from(self, i + 1)

DKT_len(self) == DKT_len_from(self, 0)

\* Every (key2, value) of the old array, in outer-slot then inner-slot order.
RECURSIVE DKT_old_items(_, _)
DKT_old_items(old_array, i) ==
  IF i \notin DOMAIN old_array THEN << >>
  ELSE LPT_items(old_array[i]) \o DKT_old_items(old_array, i + 1)

\* The re-insertion loop of _rehash:
\*   key1 = self.iter_keys().__next__(); self[key1, key2] = value
RECURSIVE DKT_reinsert(_, _)
DKT_reinsert(self, items) ==
  IF items = << >> THEN [err |-> "ok", self |-> self]
  ELSE LET key1 == DKT_iter_keys_next(self)
       IN  IF key1.err # "ok" THEN [err |-> key1.err, self |-> self]
           ELSE LET r == DKT_setitem(self, key1.value,
                                     Head(items).key, Head(items).value)
                IN  IF r.err # "ok" THEN r
                    ELSE DKT_reinsert(r.self, Tail(items))

DKT_rehash(self) ==
  IF self.size_index + 1 >= Len(self.TABLE_SIZES)
    THEN [err |-> "IndexError",
          self |-> [self EXCEPT !.size_index = @ + 1]]
    ELSE DKT_reinsert(
           [self EXCEPT
              !.size_index = @ + 1,
              !.array = [i \in Range(self.TABLE_SIZES[self.size_index + 2])
                           |-> LPT_new(self.TABLE_SIZES)]],
           DKT_old_items(self.array, 0))

(***************************************************************************)
(* Trail.  A Trail wraps a store: None, a TrailSeries (a mountain and the  *)
(* trail that follows it) or a TrailSplit (two branches and the trail that *)
(* follows where they join).                                               *)
(***************************************************************************)
Trail(store) == [store |-> store]

TrailSeries(mountain, following) ==
  [tag |-> "TrailSeries", mountain |-> mountain, following |-> following]

TrailSplit(path_top, path_bottom, path_follow) ==
  [tag |-> "TrailSplit", path_top |-> path_top, path_bottom |-> path_bottom,
   path_follow |-> path_follow]

Trail_add_mountain_before(self, mountain) == Trail(TrailSeries(mountain, self))

Trail_add_empty_branch_before(self) ==
  Trail(TrailSplit(Trail(None), Trail(None), self))

\* ArrayStack: push appends to the list of items, pop takes its last item.
Push(stack, item) == Append(stack, item)

Peek(stack) == stack[Len(stack)]

Pop(stack) == SubSeq(stack, 1, Len(stack) - 1)

\* The while loop of follow_path.  choices holds what the calls of
\* personality.select_branch return, in the order of the calls; visited is
\* the list of the mountains given to personality.add_mountain.
RECURSIVE FollowLoop(_, _, _)
FollowLoop(stack, choices, visited) ==
  IF stack = << >> THEN visited
  ELSE LET current_store == Peek(stack).store
           popped == Pop(stack)
       IN  IF current_store.tag = "TrailSeries"
             THEN FollowLoop(Push(popped, current_store.following), choices,
                             Append(visited, current_store.mountain))
           ELSE IF current_store.tag = "TrailSplit"
             THEN IF Head(choices)
                    THEN FollowLoop(Push(popped, current_store.path_top),
                                    Tail(choices), visited)
                    ELSE FollowLoop(Push(popped, current_store.path_bottom),
                                    Tail(choices), visited)
           ELSE FollowLoop(popped, choices, visited)

Trail_follow_path(self, choices) == FollowLoop(<<self>>, choices, << >>)

\* The while loop of collect_all_mountains.
RECURSIVE CollectLoop(_, _)
CollectLoop(stack, mountains) ==
  IF stack = << >> THEN mountains
  ELSE LET current_store == Peek(stack).store
           popped == Pop(stack)
       IN  IF current_store.tag = "TrailSeries"
             THEN CollectLoop(Push(popped, current_store.following),
                              Append(mountains, current_store.mountain))
           ELSE IF current_store.tag = "TrailSplit"
             THEN CollectLoop(Push(Push(popped, current_store.path_top),
                                   current_store.path_bottom),
                              mountains)
           ELSE CollectLoop(popped, mountains)

Trail_collect_all_mountains(self) == CollectLoop(<<self>>, << >>)

\* The while loop of length_k_paths; the stack holds
\* (current_trail, current_path, mountains_visited).
RECURSIVE PathsLoop(_, _, _)
PathsLoop(stack, paths, k) ==
  IF stack = << >> THEN paths
  ELSE LET current_store == Peek(stack)[1].store
           current_path == Peek(stack)[2]
           mountains_visited == Peek(stack)[3]
           popped == Pop(stack)
       IN  IF current_store.tag = "TrailSeries"
             THEN LET path_new == IF current_store.mountain # None
                                    THEN Append(current_path,
                                                current_store.mountain)
                                    ELSE current_path
                      visited_new == IF current_store.mountain # None
                                       THEN mountains_visited + 1
                                       ELSE mountains_visited
                  IN  IF visited_new = k
                        THEN PathsLoop(popped, Append(paths, path_new), k)
                        ELSE PathsLoop(
                               Push(popped, <<current_store.following,
                                              path_new, visited_new>>),
                               paths, k)
           ELSE IF current_store.tag = "TrailSplit"
             THEN PathsLoop(
                    Push(Push(popped, <<current_store.path_top,
                                        current_path, mountains_visited>>),
                         <<current_store.path_bottom,
                           current_path, mountains_visited>>),
                    paths, k)
           ELSE PathsLoop(popped, paths, k)

Trail_length_k_paths(self, k) == PathsLoop(<< <<self, << >>, 0>> >>, << >>, k)

(***************************************************************************)
(* MountainOrganiser.  A mountain is [name, difficulty_level, length], the *)
(* name a string; the organiser is [mountains, length], mountains being an *)
(* array (a function on 0 .. size-1 whose unset cells are None).           *)
(***************************************************************************)
Mountain(name, difficulty_level, length) ==
  [name |-> name, difficulty_level |-> difficulty_level, length |-> length]

\* ArrayR(length): an array of that many unset cells; a length that is not
\* positive is refused with ValueError.
ArrayR(length) ==
  IF length <= 0 THEN Raise("ValueError")
                 ELSE Return([i \in Range(length) |-> None])

MO_init == [mountains |-> ArrayR(1).value, length |-> 0]

\* a < b for Python strings: by the first character that differs, a proper
\* prefix before the longer string.
RECURSIVE StrLess(_, _)
StrLess(a, b) ==
  IF b = << >> THEN FALSE
  ELSE IF a = << >> THEN TRUE
  ELSE IF Head(a) # Head(b) THEN Head(a) < Head(b)
  ELSE StrLess(Tail(a), Tail(b))

\* key(a) < key(b) for the sort key (m.difficulty_level, m.length, m.name).
KeyLess(a, b) ==
  \/ a.difficulty_level < b.difficulty_level
  \/ a.difficulty_level = b.difficulty_level /\ a.length < b.length
  \/ a.difficulty_level = b.difficulty_level /\ a.length = b.length
       /\ StrLess(a.name, b.name)

\* list.sort(key=...): a stable sort; m goes behind the last element whose
\* key is not greater than its own.
RECURSIVE InsertByKey(_, _)
InsertByKey(sorted, m) ==
  IF sorted = << >> THEN <<m>>
  ELSE IF KeyLess(m, sorted[Len(sorted)])
    THEN Append(InsertByKey(SubSeq(sorted, 1, Len(sorted) - 1), m),
                sorted[Len(sorted)])
  ELSE Append(sorted, m)

RECURSIVE SortByKey(_)
SortByKey(list) ==
  IF list = << >> THEN << >>
  ELSE InsertByKey(SortByKey(SubSeq(list, 1, Len(list) - 1)), list[Len(list)])

\* The test of the first while loop of add_mountains: the organiser's
\* mountain old goes before the new mountain new.
OldFirst(old, new) ==
  \/ old.difficulty_level < new.difficulty_level
  \/ (old.difficulty_level = new.difficulty_level /\ old.length < new.length)
  \/ (old.difficulty_level = new.difficulty_level /\ old.length = new.length
        /\ StrLess(old.name, new.name))

\* The three while loops of add_mountains; mountains is the sorted list
\* (Python index j is mountains[j + 1] here).
RECURSIVE MergeLoop(_, _, _, _, _, _)
MergeLoop(self, mountains, new_array, i, j, k) ==
  IF i < self.length /\ j < Len(mountains)
    THEN IF OldFirst(self.mountains[i], mountains[j + 1])
           THEN MergeLoop(self, mountains,
                          [new_array EXCEPT ![k] = self.mountains[i]],
                          i + 1, j, k + 1)
           ELSE MergeLoop(self, mountains,
                          [new_array EXCEPT ![k] = mountains[j + 1]],
                          i, j + 1, k + 1)
  ELSE IF i < self.length
    THEN MergeLoop(self, mountains,
                   [new_array EXCEPT ![k] = self.mountains[i]],
                   i + 1, j, k + 1)
  ELSE IF j < Len(mountains)
    THEN MergeLoop(self, mountains,
                   [new_array EXCEPT ![k] = mountains[j + 1]],
                   i, j + 1, k + 1)
  ELSE new_array

\* add_mountains from line 23 on, for the list as line 21 leaves it.  The
\* result is [err, self].
MO_merge(self, mountains) ==
  LET new_array == ArrayR(self.length + Len(mountains))
  IN  IF new_array.err # "ok" THEN [err |-> new_array.err, self |-> self]
      ELSE [err |-> "ok",
            self |-> [mountains |-> MergeLoop(self, mountains,
                                              new_array.value, 0, 0, 0),
                      length |-> self.length + Len(mountains)]]

\* add_mountains without the sort of line 21.
MO_add_mountains_Unsorted(self, mountains) == MO_merge(self, mountains)

MO_add_mountains(self, mountains) == MO_merge(self, SortByKey(mountains))

(***************************************************************************)
(* The trie under set and delete.                                          *)
(***************************************************************************)
TInit ==
  /\ root = NewTable(0)
  /\ tref = EmptyMap
  /\ tlast = [op |-> "init"]
  /\ terr = "ok"
  /\ twas = FALSE
  /\ org = MO_init
  /\ oadded = << >>
  /\ olast = [op |-> "init"]
  /\ trail = Trail(None)
  /\ tout = [op |-> "init"]
  /\ dkt = DKT_init(Given(<<3, 7>>), NotGiven)
  /\ dref = EmptyMap
  /\ dlast = [op |-> "init"]
  /\ derr = "ok"

TSet(key, value) ==
  /\ key \in DOMAIN tref \/ Cardinality(DOMAIN tref) < MaxStored
  /\ LET r == IHT_setitem(root, key, value)
     IN  /\ root' = r.self
         /\ terr' = r.err
  /\ tref' = Put(tref, key, value)
  /\ tlast' = [op |-> "set", key |-> key, value |-> value]
  /\ twas' = IHT_contains(root, key)
  /\ UNCHANGED dvars
  /\ UNCHANGED trvars
  /\ UNCHANGED ovars

TDel(key) ==
  /\ LET r == IHT_delitem(root, key)
     IN  /\ root' = r.self
         /\ terr' = r.err
  /\ tref' = Remove(tref, key)
  /\ tlast' = [op |-> "del", key |-> key]
  /\ twas' = IHT_contains(root, key)
  /\ UNCHANGED dvars
  /\ UNCHANGED trvars
  /\ UNCHANGED ovars

TNext ==
  \/ \E key \in Keys, value \in Values : TSet(key, value)
  \/ \E key \in Keys : TDel(key)

(***************************************************************************)
(* The two-level table under set, delete and _rehash.                      *)
(***************************************************************************)

\* Top-level keys "" and "a"; bottom-level keys "x", "y", "z".
Keys1 == { PyStr(<< >>), PyStr(<<97>>) }

Keys2 == { <<120>>, <<121>>, <<122>> }

\* The constructor calls: DoubleKeyTable(sizes=[5, 13], internal_sizes=[3, 7])
\* and DoubleKeyTable(sizes=[3, 7]).
CtorArgs ==
  { [sizes |-> Given(<<5, 13>>), internal_sizes |-> Given(<<3, 7>>)],
    [sizes |-> Given(<<3, 7>>), internal_sizes |-> NotGiven] }

DInit ==
  /\ \E args \in CtorArgs : dkt = DKT_init(args.sizes, args.internal_sizes)
  /\ dref = EmptyMap
  /\ dlast = [op |-> "init"]
  /\ derr = "ok"
  /\ root = NewTable(0)
  /\ tref = EmptyMap
  /\ tlast = [op |-> "init"]
  /\ terr = "ok"
  /\ twas = FALSE
  /\ org = MO_init
  /\ oadded = << >>
  /\ olast = [op |-> "init"]
  /\ trail = Trail(None)
  /\ tout = [op |-> "init"]

DSet(key1, key2, data) ==
  /\ <<key1, key2>> \in DOMAIN dref \/ Cardinality(DOMAIN dref) < MaxStored
  /\ LET r == DKT_setitem(dkt, key1, key2, data)
     IN  /\ dkt' = r.self
         /\ derr' = r.err
  /\ dref' = Put(dref, <<key1, key2>>, data)
  /\ dlast' = [op |-> "set", key1 |-> key1, key2 |-> key2, data |-> data]
  /\ UNCHANGED tvars
  /\ UNCHANGED trvars
  /\ UNCHANGED ovars

DDel(key1, key2) ==
  /\ LET r == DKT_delitem(dkt, key1, key2)
     IN  /\ dkt' = r.self
         /\ derr' = r.err
  /\ dref' = Remove(dref, <<key1, key2>>)
  /\ dlast' = [op |-> "del", key1 |-> key1, key2 |-> key2]
  /\ UNCHANGED tvars
  /\ UNCHANGED trvars
  /\ UNCHANGED ovars

\* _rehash, as long as the growth sequence has not been overrun.
DRehash ==
  /\ dkt.size_index < Len(dkt.TABLE_SIZES)
  /\ LET r == DKT_rehash(dkt)
     IN  /\ dkt' = r.self
         /\ derr' = r.err
  /\ dref' = dref
  /\ dlast' = [op |-> "rehash"]
  /\ UNCHANGED tvars
  /\ UNCHANGED trvars
  /\ UNCHANGED ovars

\* A call of _linear_probe.
DLinearProbe(key1, key2, is_insert) ==
  /\ LET r == DKT_linear_probe(dkt, key1, key2, is_insert)
     IN  /\ dkt' = r.self
         /\ derr' = r.err
         /\ dlast' = [op |-> "_linear_probe", key1 |-> key1, key2 |-> key2,
                      is_insert |-> is_insert,
                      value |-> IF r.err = "ok" THEN r.value ELSE None]
  /\ dref' = dref
  /\ UNCHANGED tvars
  /\ UNCHANGED trvars
  /\ UNCHANGED ovars

DNext ==
  \/ \E key1 \in Keys1, key2 \in Keys2, data \in Values : DSet(key1, key2, data)
  \/ \E key1 \in Keys1, key2 \in Keys2 : DDel(key1, key2)
  \/ DRehash

\* The table under set and delete alone.
SNext ==
  \/ \E key1 \in Keys1, key2 \in Keys2, data \in Values : DSet(key1, key2, data)
  \/ \E key1 \in Keys1, key2 \in Keys2 : DDel(key1, key2)

\* The table under set, delete and calls of _linear_probe.
PNext ==
  \/ \E key1 \in Keys1, key2 \in Keys2 : DSet(key1, key2, 1)
  \/ \E key1 \in Keys1, key2 \in Keys2 : DDel(key1, key2)
  \/ \E key1 \in Keys1, key2 \in Keys2, is_insert \in BOOLEAN :
       DLinearProbe(key1, key2, is_insert)

(***************************************************************************)
(* A trail under its constructors, collect_all_mountains and               *)
(* length_k_paths.                                                         *)
(***************************************************************************)
Mountains == { [name |-> "m1"], [name |-> "m2"] }

\* The trails handed to the functions have at most this many series and
\* splits.
MaxTrail == 3

\* The values of k given to length_k_paths.
PathLengths == 1 .. 2

\* Every trail made of exactly n series and splits.
RECURSIVE TrailsOfSize(_)
TrailsOfSize(n) ==
  IF n = 0 THEN { Trail(None) }
  ELSE { Trail(TrailSeries(m, t)) : m \in Mountains, t \in TrailsOfSize(n - 1) }
       \cup UNION { { Trail(TrailSplit(a, b, c)) :
                        a \in TrailsOfSize(ij[1]),
                        b \in TrailsOfSize(ij[2]),
                        c \in TrailsOfSize(n - 1 - ij[1] - ij[2]) } :
                    ij \in { x \in (0 .. n - 1) \X (0 .. n - 1) :
                               x[1] + x[2] <= n - 1 } }

\* The number of series and splits of a trail.
RECURSIVE TrailSize(_)
TrailSize(t) ==
  IF t.store.tag = "TrailSeries" THEN 1 + TrailSize(t.store.following)
  ELSE IF t.store.tag = "TrailSplit"
    THEN 1 + TrailSize(t.store.path_top) + TrailSize(t.store.path_bottom)
           + TrailSize(t.store.path_follow)
  ELSE 0

TrInit ==
  /\ trail \in UNION { TrailsOfSize(n) : n \in 0 .. MaxTrail }
  /\ tout = [op |-> "init"]
  /\ root = NewTable(0)
  /\ tref = EmptyMap
  /\ tlast = [op |-> "init"]
  /\ terr = "ok"
  /\ twas = FALSE
  /\ org = MO_init
  /\ oadded = << >>
  /\ olast = [op |-> "init"]
  /\ dkt = DKT_init(Given(<<3, 7>>), NotGiven)
  /\ dref = EmptyMap
  /\ dlast = [op |-> "init"]
  /\ derr = "ok"

TrAddMountainBefore(mountain) ==
  /\ TrailSize(trail) < MaxTrail
  /\ trail' = Trail_add_mountain_before(trail, mountain)
  /\ tout' = [op |-> "add_mountain_before"]
  /\ UNCHANGED tvars
  /\ UNCHANGED dvars
  /\ UNCHANGED ovars

TrAddEmptyBranchBefore ==
  /\ TrailSize(trail) < MaxTrail
  /\ trail' = Trail_add_empty_branch_before(trail)
  /\ tout' = [op |-> "add_empty_branch_before"]
  /\ UNCHANGED tvars
  /\ UNCHANGED dvars
  /\ UNCHANGED ovars

TrCollect ==
  /\ trail' = trail
  /\ tout' = [op |-> "collect_all_mountains",
              value |-> Trail_collect_all_mountains(trail)]
  /\ UNCHANGED tvars
  /\ UNCHANGED dvars
  /\ UNCHANGED ovars

TrPaths(k) ==
  /\ trail' = trail
  /\ tout' = [op |-> "length_k_paths", k |-> k,
              value |-> Trail_length_k_paths(trail, k)]
  /\ UNCHANGED tvars
  /\ UNCHANGED dvars
  /\ UNCHANGED ovars

\* follow_path with a personality whose select_branch gives the answers of
\* choices (one for every split the trail can have).
TrFollow(choices) ==
  /\ trail' = trail
  /\ tout' = [op |-> "follow_path", choices |-> choices,
              value |-> Trail_follow_path(trail, choices)]
  /\ UNCHANGED tvars
  /\ UNCHANGED dvars
  /\ UNCHANGED ovars

TrNext ==
  \/ \E mountain \in Mountains : TrAddMountainBefore(mountain)
  \/ TrAddEmptyBranchBefore
  \/ TrCollect
  \/ \E k \in PathLengths : TrPaths(k)
  \/ \E choices \in [1 .. MaxTrail -> BOOLEAN] : TrFollow(choices)

(***************************************************************************)
(* The organiser under add_mountains.                                      *)
(***************************************************************************)

\* ("a", 1, 1), ("b", 1, 1), ("a", 1, 2) and ("a", 2, 1): the name, the
\* length and the difficulty level each decide the order of some pair.
OrgMountains ==
  { Mountain(<<97>>, 1, 1), Mountain(<<98>>, 1, 1), Mountain(<<97>>, 1, 2),
    Mountain(<<97>>, 2, 1) }

\* At most this many mountains are handed to the organiser.
MaxOrg == 4

\* The lists given to add_mountains: of 0, 1 or 2 mountains.
OrgLists ==
  { << >> } \cup { <<m>> : m \in OrgMountains }
            \cup { <<m, n>> : m \in OrgMountains, n \in OrgMountains }

OInit ==
  /\ org = MO_init
  /\ oadded = << >>
  /\ olast = [op |-> "init"]
  /\ root = NewTable(0)
  /\ tref = EmptyMap
  /\ tlast = [op |-> "init"]
  /\ terr = "ok"
  /\ twas = FALSE
  /\ dkt = DKT_init(Given(<<3, 7>>), NotGiven)
  /\ dref = EmptyMap
  /\ dlast = [op |-> "init"]
  /\ derr = "ok"
  /\ trail = Trail(None)
  /\ tout = [op |-> "init"]

OAdd(mountains) ==
  /\ Len(oadded) + Len(mountains) <= MaxOrg
  /\ LET r == MO_add_mountains(org, mountains)
     IN  /\ org' = r.self
         /\ olast' = [op |-> "add_mountains", mountains |-> mountains,
                      before |-> org.length, err |-> r.err]
  /\ oadded' = oadded \o mountains
  /\ UNCHANGED tvars
  /\ UNCHANGED dvars
  /\ UNCHANGED trvars

ONext == \E mountains \in OrgLists : OAdd(mountains)

SpecTrie == TInit /\ [][TNext]_vars

SpecTrail == TrInit /\ [][TrNext]_vars

SpecTable == DInit /\ [][DNext]_vars

SpecSetDel == DInit /\ [][SNext]_vars

SpecProbe == DInit /\ [][PNext]_vars

SpecOrg == OInit /\ [][ONext]_vars

(***************************************************************************)
(* Properties of the trie (checked under SpecTrie).                        *)
(***************************************************************************)

\* C1: after every sequence of set and delete, len() (the root's count)
\* equals the number of distinct keys currently stored, as the reference map
\* tracks them: whenever the keys the table contains are the keys of the
\* reference map, len() is the number of those keys.
C1_LenEqualsStored ==
  (\A k \in Keys : IHT_contains(root, k) <=> k \in DOMAIN tref)
    => IHT_len(root) = Cardinality(DOMAIN tref)

\* C3: lookup agrees with the reference map: a key of the map is returned
\* by get with the value last set and is contained; any other key makes get
\* raise KeyError and is not contained.
C3_LookupAgrees ==
  \A k \in Keys :
    IF k \in DOMAIN tref
      THEN /\ IHT_getitem(root, k) = Return(tref[k])
           /\ IHT_contains(root, k)
      ELSE /\ IHT_getitem(root, k) = Raise("KeyError")
           /\ ~IHT_contains(root, k)

\* Two strings share a common prefix of length >= 1.
SharePrefix(a, b) == Len(a) >= 1 /\ Len(b) >= 1 /\ a[1] = b[1]

\* The table after set(a, va), set(b, vb) on a new table.
AfterSets(a, va, b, vb) ==
  IHT_setitem(IHT_setitem(NewTable(0), a, va).self, b, vb).self

\* C4: collapse law: in the table built by set(a), set(b) for distinct keys
\* with a common prefix, delete(a) returns without error and leaves b as a
\* tuple in the root slot hash(b), with get_location(b) of length 1 and
\* get(b) returning b's value.
C4_CollapseLaw ==
  [][\A a \in Keys, b \in Keys, va \in Values, vb \in Values :
       ( /\ a # b
         /\ SharePrefix(a, b)
         /\ root = AfterSets(a, va, b, vb)
         /\ tlast' = [op |-> "del", key |-> a] )
       => /\ terr' = "ok"
          /\ Cell(root', IHT_hash(root', b)) = Tuple(b, vb)
          /\ IHT_get_location(root', b) = Return(<<IHT_hash(root', b)>>)
          /\ IHT_getitem(root', b) = Return(vb)]_vars

IsStrictPrefix(p, k) == Len(p) < Len(k) /\ SubSeq(k, 1, Len(p)) = p

\* The level of the table that holds key's tuple (key is stored).
RECURSIVE LeafLevel(_, _)
LeafLevel(self, key) ==
  LET entry == Cell(self, IHT_hash(self, key))
  IN  IF entry.tag = "table" THEN LeafLevel(entry, key) ELSE self.level

\* The table of the given level on key's path, or None when the path ends
\* before that level.
RECURSIVE TableOnPath(_, _, _)
TableOnPath(self, key, level) ==
  IF self.level = level THEN self
  ELSE LET entry == Cell(self, IHT_hash(self, key))
       IN  IF entry.tag = "table" THEN TableOnPath(entry, key, level)
                                  ELSE None

\* p is a strict prefix of two stored keys whose tuples lie at depth
\* >= len(p).
PrefixOfDeepKeys(self, p) ==
  \E k1 \in Keys, k2 \in Keys :
    /\ k1 # k2
    /\ \A k \in {k1, k2} :
         /\ IsStrictPrefix(p, k)
         /\ IHT_getitem(self, k).err = "ok"
         /\ LeafLevel(self, k) >= Len(p)

\* C10: setting a strict prefix p of stored keys disambiguated at depth
\* >= len(p) puts (p, value) in the sentinel slot TABLE_SIZE-1 of the table
\* of level len(p), and every key stored before is still returned with its
\* value; hash gives the sentinel slot exactly when len(key) <= level and a
\* slot of 0 .. TABLE_SIZE-2 otherwise.
C10_PrefixKeyInSentinel ==
  [][ /\ \A k \in Keys, level \in 0 .. RecursionLimit :
           IF Len(k) <= level
             THEN IHT_hash(NewTable(level), k) = TABLE_SIZE - 1
             ELSE IHT_hash(NewTable(level), k) \in 0 .. (TABLE_SIZE - 2)
      /\ \A p \in Keys, value \in Values :
           ( /\ PrefixOfDeepKeys(root, p)
             /\ tlast' = [op |-> "set", key |-> p, value |-> value] )
           => /\ terr' = "ok"
              /\ TableOnPath(root', p, Len(p)) # None
              /\ Cell(TableOnPath(root', p, Len(p)), TABLE_SIZE - 1)
                   = Tuple(p, value)
              /\ \A k \in Keys \ {p} :
                   IHT_getitem(root, k).err = "ok"
                     => IHT_getitem(root', k) = IHT_getitem(root, k) ]_vars

\* The hashes of key at the levels 0 .. d.
HashPath(key, d) == [i \in 1 .. d + 1 |-> IHT_hash(NewTable(i - 1), key)]

\* C11: get_location(k) of a key held as a leaf at depth d (d >= 2
\* included) returns the d+1 slot indices hash(k) of the levels 0 .. d, the
\* path from the root to k's leaf; for a key that is not stored it raises
\* KeyError.
C11_GetLocation ==
  \A k \in Keys :
    IF IHT_getitem(root, k).err = "ok"
      THEN IHT_get_location(root, k) = Return(HashPath(k, LeafLevel(root, k)))
      ELSE IHT_get_location(root, k) = Raise("KeyError")

\* The leaf pairs reachable under a table, and their keys.
RECURSIVE Leaves(_)
Leaves(self) ==
  UNION { IF self.array[i].tag = "tuple" THEN { self.array[i] }
                                         ELSE Leaves(self.array[i]) :
          i \in DOMAIN self.array }

LeafKeys(self) == { leaf.key : leaf \in Leaves(self) }

\* C12: no partial mutation on failure, in both containers: get and delete
\* of an absent key raise KeyError; a set or delete that raises leaves the
\* container exactly as it was before the call; a delete of a stored key
\* that raises has not removed the key.
C12_NoPartialMutation ==
  [][ /\ \A key \in Keys :
           key \notin LeafKeys(root)
             => /\ IHT_getitem(root, key) = Raise("KeyError")
                /\ tlast' = [op |-> "del", key |-> key] => terr' = "KeyError"
      /\ (tlast'.op \in {"set", "del"} /\ terr' # "ok") => root' = root
      /\ \A key \in LeafKeys(root) :
           (tlast' = [op |-> "del", key |-> key] /\ terr' # "ok")
             => key \in LeafKeys(root')
      /\ \A key1 \in Keys1, key2 \in Keys2 :
           ( /\ <<key1, key2>> \notin DOMAIN dref
             /\ dlast' = [op |-> "del", key1 |-> key1, key2 |-> key2] )
           => derr' = "KeyError"
      /\ (dlast'.op \in {"set", "del"} /\ derr' # "ok") => dkt' = dkt ]_vars

\* C13: set terminates: every set call returns, and no key is pushed deeper
\* than its own length (the recursion is bounded by the length of the
\* longer of two colliding keys plus one).
C13_SetTerminates ==
  /\ tlast.op = "set" => terr = "ok"
  /\ \A k \in LeafKeys(root) : LeafLevel(root, k) <= Len(k)

\* Every table of the trie: self and the tables below it.
RECURSIVE Nodes(_)
Nodes(self) ==
  { self } \cup UNION { IF self.array[i].tag = "table"
                          THEN Nodes(self.array[i]) ELSE {} :
                        i \in DOMAIN self.array }

\* C17: minimality: in every state reached by set and delete no slot of any
\* table holds a child table with fewer than two leaf pairs under it (a
\* child left with one leaf by a delete is replaced by that leaf).
C17_Minimal ==
  \A node \in Nodes(root) :
    \A i \in DOMAIN node.array :
      node.array[i].tag = "table" => Cardinality(Leaves(node.array[i])) >= 2

\* C18: in every reachable state the count of every table of the trie, the
\* root included, is the number of leaf pairs under that table.
C18_NodeCount ==
  \A node \in Nodes(root) : node.count = Cardinality(Leaves(node))

\* The counts of the tables on key's path, from the root down.
RECURSIVE PathCounts(_, _)
PathCounts(self, key) ==
  LET entry == Cell(self, IHT_hash(self, key))
  IN  IF entry.tag = "table" THEN <<self.count>> \o PathCounts(entry, key)
                             ELSE <<self.count>>

\* C19: overwrite: set(k, v2) of a key that is stored, at any depth,
\* returns and changes only the value get(k) returns; len(), the count of
\* every table on k's path, the leaves and values of all other keys and
\* get_location of every key stay as they were, and setting (k, v2) once
\* more gives the same table.
C19_Overwrite ==
  [][\A k \in Keys, v2 \in Values :
       ( /\ IHT_contains(root, k)
         /\ tlast' = [op |-> "set", key |-> k, value |-> v2] )
       => /\ terr' = "ok"
          /\ IHT_getitem(root', k) = Return(v2)
          /\ IHT_len(root') = IHT_len(root)
          /\ PathCounts(root', k) = PathCounts(root, k)
          /\ { leaf \in Leaves(root') : leaf.key # k }
               = { leaf \in Leaves(root) : leaf.key # k }
          /\ \A other \in Keys \ {k} :
               IHT_getitem(root', other) = IHT_getitem(root, other)
          /\ \A any \in Keys :
               IHT_get_location(root', any) = IHT_get_location(root, any)
          /\ IHT_setitem(root', k, v2) = [err |-> "ok", self |-> root'] ]_vars

\* An overwrite has been done of a key held two tables below the root.
C19_Witness ==
  /\ tlast.op = "set"
  /\ twas
  /\ terr = "ok"
  /\ LeafLevel(root, tlast.key) >= 2
  /\ IHT_getitem(root, tlast.key) = Return(tlast.value)

\* Below the table self, reached from the root through the slots of path:
\* every child table has the level of its parent plus one, and every leaf
\* pair sits in the slot its key hashes to, below slots that are the hashes
\* of its key at the levels above.
RECURSIVE Structured(_, _)
Structured(self, path) ==
  /\ self.level = Len(path)
  /\ \A i \in DOMAIN self.array :
       IF self.array[i].tag = "tuple"
         THEN /\ IHT_hash(self, self.array[i].key) = i
              /\ \A L \in 1 .. Len(path) :
                   IHT_hash(NewTable(L - 1), self.array[i].key) = path[L]
         ELSE /\ self.array[i].level = self.level + 1
              /\ Structured(self.array[i], Append(path, i))

\* C20: structure: in every state reached by set and delete the child
\* tables and leaf pairs lie where level and hash put them; and a set of a
\* new key whose path ends at a leaf pair of another key returns and
\* replaces that slot by a child table of the next level that holds both
\* the pair that was there and the new pair.
C20_Structure ==
  [][ /\ Structured(root', << >>)
      /\ \A k \in Keys, v \in Values :
           LET L == LeafLevel(root, k)
               table == TableOnPath(root, k, L)
               old == Cell(table, IHT_hash(table, k))
               child == Cell(TableOnPath(root', k, L), IHT_hash(table, k))
           IN  ( /\ old.tag = "tuple"
                 /\ old.key # k
                 /\ tlast' = [op |-> "set", key |-> k, value |-> v] )
               => /\ terr' = "ok"
                  /\ child.tag = "table"
                  /\ child.level = L + 1
                  /\ Leaves(child) = { old, Tuple(k, v) } ]_vars

\* The same with the second part limited to the set calls that return.
C20_StructureWhenSetReturns ==
  [][ /\ Structured(root', << >>)
      /\ \A k \in Keys, v \in Values :
           LET L == LeafLevel(root, k)
               table == TableOnPath(root, k, L)
               old == Cell(table, IHT_hash(table, k))
               child == Cell(TableOnPath(root', k, L), IHT_hash(table, k))
           IN  ( /\ old.tag = "tuple"
                 /\ old.key # k
                 /\ tlast' = [op |-> "set", key |-> k, value |-> v]
                 /\ terr' = "ok" )
               => /\ child.tag = "table"
                  /\ child.level = L + 1
                  /\ Leaves(child) = { old, Tuple(k, v) } ]_vars

(***************************************************************************)
(* Properties of the two-level table (checked under SpecTable).            *)
(***************************************************************************)

\* C2: round trip: every pair whose last operation was set((k1, k2), v) is
\* returned by get((k1, k2)) with v, whatever was done to other pairs.
C2_RoundTrip ==
  \A pair \in DOMAIN dref :
    DKT_getitem(dkt, pair[1], pair[2]) = Return(dref[pair])

\* C5: after every sequence of set and delete, len() equals the number of
\* distinct (key1, key2) pairs of the reference map.
C5_LenEqualsPairs == DKT_len(dkt) = Cardinality(DOMAIN dref)

\* x is an element of the list a call returned.
InList(result, x) ==
  result.err = "ok" /\ \E i \in DOMAIN result.value : result.value[i] = x

\* C6: deleting the last remaining (k1, *) pair of k1 removes k1 from
\* keys(None), which contained k1 before the delete.
C6_LastPairRemovesKey1 ==
  [][\A key1 \in Keys1, key2 \in Keys2 :
       ( /\ {pair \in DOMAIN dref : pair[1] = key1} = {<<key1, key2>>}
         /\ dlast' = [op |-> "del", key1 |-> key1, key2 |-> key2] )
       => /\ InList(DKT_keys_all(dkt), key1)
          /\ ~InList(DKT_keys_all(dkt'), key1)]_vars

Elements(list) == {list[i] : i \in DOMAIN list}

Occurrences(list, x) == Cardinality({i \in DOMAIN list : list[i] = x})

\* C7: keys(k1) returns exactly the key2 values of the pairs stored under
\* k1, and values(k1) exactly the values of those pairs.
C7_KeysOfKey1 ==
  \A key1 \in Keys1 :
    LET stored == {pair \in DOMAIN dref : pair[1] = key1}
    IN  /\ DKT_keys(dkt, key1).err = "ok"
        /\ Elements(DKT_keys(dkt, key1).value) = {pair[2] : pair \in stored}
        /\ Len(DKT_keys(dkt, key1).value) = Cardinality(stored)
        /\ DKT_values(dkt, key1).err = "ok"
        /\ \A v \in Values :
             Occurrences(DKT_values(dkt, key1).value, v)
               = Cardinality({pair \in stored : dref[pair] = v})

\* C8: keys(None) returns exactly the key1 values (the keys given to set)
\* that have at least one stored pair, each once, and iter_keys(None)
\* yields the same elements.
C8_TopLevelKeys ==
  LET used == {pair[1] : pair \in DOMAIN dref}
  IN  /\ DKT_keys_all(dkt).err = "ok"
      /\ Elements(DKT_keys_all(dkt).value) = used
      /\ Len(DKT_keys_all(dkt).value) = Cardinality(used)
      /\ DKT_iter_keys_all(dkt) = DKT_keys_all(dkt)

\* C9: the outer resize: when the growth sequence has a next capacity,
\* _rehash moves to it and keeps every mapping: get gives for every pair
\* what it gave before, and len() is unchanged.
C9_RehashPreserves ==
  [][( /\ dkt.size_index + 1 < Len(dkt.TABLE_SIZES)
       /\ dlast' = [op |-> "rehash"] )
     => /\ derr' = "ok"
        /\ dkt'.size_index = dkt.size_index + 1
        /\ DOMAIN dkt'.array = Range(dkt.TABLE_SIZES[dkt.size_index + 2])
        /\ \A key1 \in Keys1, key2 \in Keys2 :
             DKT_getitem(dkt', key1, key2) = DKT_getitem(dkt, key1, key2)
        /\ DKT_len(dkt') = DKT_len(dkt)]_vars

\* C14: the growth sequences given to the constructor: for a table made
\* with sizes and internal_sizes, the outer capacity is one of sizes and
\* the capacity of every inner table, at all times, is one of
\* internal_sizes (the tables made by the constructor, those put in place
\* after a delete has emptied a slot and those made by _rehash).
C14_SizesOverride ==
  \A args \in CtorArgs :
    ( /\ args.sizes.given
      /\ args.internal_sizes.given
      /\ dkt.TABLE_SIZES = args.sizes.list )
    => /\ Cardinality(DOMAIN dkt.array) \in Elements(args.sizes.list)
       /\ \A i \in DOMAIN dkt.array :
            /\ LPT_table_size(dkt.array[i]) \in Elements(args.internal_sizes.list)
            /\ dkt.array[i].TABLE_SIZES = args.internal_sizes.list

\* C21: the count field: after every sequence of set and delete, count is
\* the number of stored (key1, key2) pairs: whenever the pairs the table
\* returns a value for are the pairs of the reference map, count is the
\* number of those pairs.
C21_CountField ==
  (\A key1 \in Keys1, key2 \in Keys2 :
     DKT_getitem(dkt, key1, key2).err = "ok" <=> <<key1, key2>> \in DOMAIN dref)
    => dkt.count = Cardinality(DOMAIN dref)

\* C22: the life of the inner tables: outer slot i holds an inner table
\* exactly when a stored pair has hash1(key1) = i; a new table holds none,
\* and a slot emptied by a delete holds none (not an empty table).
C22_InnerTableLifecycle ==
  \A i \in DOMAIN dkt.array :
    dkt.array[i] # None
      <=> \E pair \in DOMAIN dref : DKT_hash1(dkt, pair[1]) = Return(i)

\* value = (ord(c) + a * value) mod capacity over the characters of chars,
\* a being 31415 * 31^n mod (capacity - 1) at character n + 1.
RECURSIVE Multiplier(_, _)
Multiplier(n, capacity) ==
  IF n = 0 THEN 31415 ELSE (Multiplier(n - 1, capacity) * 31) % (capacity - 1)

RECURSIVE RollingHash(_, _, _)
RollingHash(chars, n, capacity) ==
  IF n = 0 THEN 0
  ELSE (chars[n] + Multiplier(n - 1, capacity) * RollingHash(chars, n - 1, capacity))
         % capacity

\* C24: hash1(key1) returns, for every key (the non-empty strings
\* included), the rolling hash of str(key1) modulo the outer capacity, a
\* slot of 0 .. capacity - 1; hash2 returns the same function of key2
\* modulo the capacity of the inner table given.
C24_Hash ==
  LET capacity == Cardinality(DOMAIN dkt.array)
  IN  /\ \A key1 \in Keys1 :
           /\ DKT_hash1(dkt, key1)
                = Return(RollingHash(Str(key1), Len(Str(key1)), capacity))
           /\ RollingHash(Str(key1), Len(Str(key1)), capacity) \in Range(capacity)
      /\ \A key2 \in Keys2, i \in DOMAIN dkt.array :
           LET inner == LPT_table_size(dkt.array[i])
           IN  /\ DKT_hash2(dkt, key2, dkt.array[i])
                    = Return(RollingHash(key2, Len(key2), inner))
               /\ RollingHash(key2, Len(key2), inner) \in Range(inner)

\* What a step that calls _linear_probe(key1, key2, is_insert) has to do,
\* for the top-level keys of keys1.
ProbeLaw(keys1) ==
  \A key1 \in keys1, key2 \in Keys2, is_insert \in BOOLEAN :
    ( /\ dlast'.op = "_linear_probe"
      /\ dlast'.key1 = key1
      /\ dlast'.key2 = key2
      /\ dlast'.is_insert = is_insert )
    => LET i == dlast'.value[1]
           j == dlast'.value[2]
       IN  IF ~is_insert
             THEN /\ dkt' = dkt
                  /\ IF <<key1, key2>> \in DOMAIN dref
                       THEN /\ derr' = "ok"
                            /\ dkt.array[i].array[j] = Tuple(key2, dref[<<key1, key2>>])
                       ELSE derr' = "KeyError"
             ELSE /\ derr' \in {"ok", "FullError"}
                  /\ derr' = "ok"
                       => \/ dkt'.array[i].array[j] = None
                          \/ dkt'.array[i].array[j].key = key2
                  /\ derr' = "FullError"
                       => \A i2 \in DOMAIN dkt.array :
                            DKT_hash1(dkt, key1) = Return(i2)
                              => \A j2 \in DOMAIN dkt.array[i2].array :
                                   /\ dkt.array[i2].array[j2] # None
                                   /\ dkt.array[i2].array[j2].key # key2
                  /\ \A k1 \in Keys1, k2 \in Keys2 :
                       DKT_getitem(dkt', k1, k2) = DKT_getitem(dkt, k1, k2)

\* C25: _linear_probe(key1, key2, False) returns (i, j) with key2 in cell j
\* of the inner table of slot i exactly when (key1, key2) is stored, raises
\* KeyError otherwise and leaves the table as it is; with is_insert = True
\* it returns a cell that holds key2 or is empty, raises FullError only
\* when the inner table has no empty cell and no key2, and removes no
\* stored pair.
C25_LinearProbe == [][ProbeLaw(Keys1)]_vars

\* The same for the calls whose key1 is the empty string.
C25_LinearProbeOfEmptyKey1 == [][ProbeLaw({ PyStr(<< >>) })]_vars

RECURSIVE MountainCount(_, _)
MountainCount(t, m) ==
  IF t.store.tag = "TrailSeries"
    THEN (IF t.store.mountain = m THEN 1 ELSE 0)
           + MountainCount(t.store.following, m)
  ELSE IF t.store.tag = "TrailSplit"
    THEN MountainCount(t.store.path_top, m)
           + MountainCount(t.store.path_bottom, m)
           + MountainCount(t.store.path_follow, m)
  ELSE 0

\* C15: collect_all_mountains returns every mountain of every series
\* reachable from the trail exactly once: those of both branches of every
\* split and those of the path_follow after the split.
C15_CollectAll ==
  tout.op = "collect_all_mountains"
    => \A m \in Mountains : Occurrences(tout.value, m) = MountainCount(trail, m)

\* The complete walks through trail t, each the list of its mountains; cont
\* holds the path_follow trails of the splits the walk is inside of, the
\* innermost first.
RECURSIVE Walks(_, _)
Walks(t, cont) ==
  IF t.store.tag = "TrailSeries"
    THEN LET w == Walks(t.store.following, cont)
         IN  [i \in 1 .. Len(w) |-> <<t.store.mountain>> \o w[i]]
  ELSE IF t.store.tag = "TrailSplit"
    THEN Walks(t.store.path_top, <<t.store.path_follow>> \o cont)
           \o Walks(t.store.path_bottom, <<t.store.path_follow>> \o cont)
  ELSE IF cont = << >> THEN << << >> >>
  ELSE Walks(Head(cont), Tail(cont))

\* C16: length_k_paths(k) returns exactly the complete walks that contain
\* exactly k mountains, one for each choice of branches; a walk with more
\* or fewer than k mountains contributes no path.
C16_LengthKPaths ==
  tout.op = "length_k_paths"
    => \A p \in Elements(tout.value) \cup Elements(Walks(trail, << >>)) :
         Occurrences(tout.value, p)
           = IF Len(p) = tout.k THEN Occurrences(Walks(trail, << >>), p) ELSE 0

\* The mountains of the complete walk through trail t that takes path_top
\* at a split when the next of choices is TRUE and path_bottom otherwise;
\* cont holds the path_follow trails of the splits the walk is inside of.
RECURSIVE WalkBy(_, _, _)
WalkBy(t, cont, choices) ==
  IF t.store.tag = "TrailSeries"
    THEN <<t.store.mountain>> \o WalkBy(t.store.following, cont, choices)
  ELSE IF t.store.tag = "TrailSplit"
    THEN WalkBy(IF Head(choices) THEN t.store.path_top ELSE t.store.path_bottom,
                <<t.store.path_follow>> \o cont, Tail(choices))
  ELSE IF cont = << >> THEN << >>
  ELSE WalkBy(Head(cont), Tail(cont), choices)

\* C26: follow_path adds the mountains of one complete walk in trail order:
\* the mountain of every series, the branch select_branch chooses at every
\* split and then that split's path_follow, to the end of the whole trail.
C26_FollowPath ==
  tout.op = "follow_path" => tout.value = WalkBy(trail, << >>, tout.choices)

(***************************************************************************)
(* Properties of the organiser (checked under SpecOrg).                    *)
(***************************************************************************)

\* The first length cells of the organiser's array, in order.
OrgCells(self) == [i \in 1 .. self.length |-> self.mountains[i - 1]]

\* C27: after every sequence of add_mountains calls, length is the number
\* of mountains added so far and the first length cells hold exactly those
\* mountains, each as often as it was added, in ascending order of
\* (difficulty_level, length, name).
C27_Organised ==
  /\ org.length = Len(oadded)
  /\ \A m \in OrgMountains :
       Occurrences(OrgCells(org), m) = Occurrences(oadded, m)
  /\ \A i \in 1 .. org.length - 1 :
       ~KeyLess(OrgCells(org)[i + 1], OrgCells(org)[i])

\* Two mountains given in descending order have been merged into an
\* organiser of two or more: one of them came first and an older mountain
\* last.
C27_Witness ==
  /\ olast.op = "add_mountains"
  /\ olast.err = "ok"
  /\ olast.before >= 2
  /\ Len(olast.mountains) = 2
  /\ KeyLess(olast.mountains[2], olast.mountains[1])
  /\ org.mountains[0] = olast.mountains[2]
  /\ org.mountains[org.length - 1] \notin Elements(olast.mountains)

====
